---- MODULE Spec2Model ----
(***************************************************************************)
(* Model of the IAC energy-monitoring board firmware: the startup sequence *)
(* and the acquisition / transmission / backup control loop of main()      *)
(* (src/main.cpp), and the configuration parser readConfigText             *)
(* (src/BoardConfig/BoardConfig.cpp).  Time is counted in whole seconds;   *)
(* one reading is identified by the number of the cycle that sampled it.   *)
(***************************************************************************)
EXTENDS Integers, Sequences, FiniteSets, TLC

\* ------------------------------------------------------------------ bounds
MaxCycles == 4        \* polling cycles explored
MaxCallTicks == 2     \* longest duration of one network call, in seconds
MaxWifiTries == 2     \* largest configured WIFITRIES explored
MaxPorts == 1         \* largest number of retained ports explored
MaxBacklog == 3       \* largest backlog found in the backup file at boot
MaxLines == 2         \* longest configuration text explored, in lines

\* ------------------------------------------------------- program constants
InitialPollingInterval == 5
WatchdogFactor == 5
NoOverride == -1
NETWORKSUCCESS == "NETWORKSUCCESS"

\* ----------------------------------------------- collaborator interfaces
\* status values returned by startESP / connectESPWiFi / send*TCP
NetStatus == {NETWORKSUCCESS, "NETWORKERROR"}
\* values a send may leave in its interval out-parameter (tmp)
Overrides == {NoOverride, 0, 1, 6}
\* seconds one blocking network call may take
CallTicks == 0 .. MaxCallTicks

\* backup store (the file PortReadings.dat) as a FIFO of readings
checkForBackupFile(st) == Len(st) > 0
peekOldest(st) == Head(st)
deleteDataEntry(st) == Tail(st)
dumpSensorDataToFile(st, r) == Append(st, r)

\* ------------------------------------------------------ configuration
StringValues == {"", " ", "x"}
PortValues == {0, 80}
PortCounts == 0 .. MaxPorts
DefaultSpecs ==
  [DatabaseTableName |-> "", RemoteDir |-> "", RemoteIP |-> "",
   RemotePort |-> 0, HostName |-> "", NumPorts |-> 0]
ParsedSpecs ==
  [DatabaseTableName : StringValues, RemoteDir : StringValues,
   RemoteIP : StringValues, RemotePort : PortValues, HostName : StringValues,
   NumPorts : PortCounts]

\* record of one collaborator invocation
Call(op, ok, entry, tmp) == [op |-> op, ok |-> ok, entry |-> entry, tmp |-> tmp]

VARIABLES
  pc,               \* position of main()
  Specs,            \* the BoardSpecs fields main() tests
  WIFITRIES,        \* configured maximum of the retry budget
  OfflineMode,
  wifi_tries,
  wifi_err,
  PollingInterval,
  PollingTimer,     \* elapsed seconds of the cycle timer
  store,            \* contents of the backup file, oldest first
  reading,          \* the current cycle's port readings (sample id)
  cycle,            \* number of the current cycle
  calls,            \* collaborator invocations made by the last step
  espOK,            \* what startESP returned
  acked,            \* readings acknowledged by the remote, in order
  appendedLog,      \* readings appended to the backup store, in order
  drainedLog,       \* backlog entries acknowledged by the remote, in order
  nDeleted,         \* number of deleteDataEntry calls
  curSent,          \* acknowledged sends of the current readings this cycle
  curDumped,        \* appends of the current readings this cycle
  consecFails,      \* failed connects since the board was last connected
  everNet,          \* a connect or a send has been invoked
  cfgOpened,        \* readSDCard could open the configuration file
  watchdog,         \* the Timeout: attached delay, seconds since attached
  steady,           \* the run is the unbounded steady regime (see InitSteady)
  cfgText,          \* the lines of the configuration file
  cfgParse,         \* what readConfigText made of cfgText
  sampled           \* one port sample and where it was handed

vars == <<pc, Specs, WIFITRIES, OfflineMode, wifi_tries, wifi_err,
          PollingInterval, PollingTimer, store, reading, cycle, calls, espOK,
          acked, appendedLog, drainedLog, nDeleted, curSent, curDumped,
          consecFails, everNet, cfgOpened, watchdog, steady, cfgText,
          cfgParse, sampled>>

pureVars == <<cfgText, cfgParse, sampled>>
cfgVars == <<Specs, WIFITRIES, steady, pureVars>>
logVars == <<acked, appendedLog, drainedLog, nDeleted>>
curVars == <<curSent, curDumped>>

NoParse == [status |-> "none"]
NoSample == [status |-> "none"]

\* no configuration text is being parsed
PureIdle ==
  /\ cfgText = <<>>
  /\ cfgParse = NoParse
  /\ sampled = NoSample

MainInit ==
  /\ pc = "mount"
  /\ Specs = DefaultSpecs
  /\ WIFITRIES \in 1 .. MaxWifiTries
  /\ OfflineMode = FALSE
  /\ wifi_tries = WIFITRIES
  /\ wifi_err = NETWORKSUCCESS
  /\ PollingInterval = InitialPollingInterval
  /\ PollingTimer = 0
  /\ store = <<>>
  /\ reading = 0
  /\ cycle = 0
  /\ calls = <<>>
  /\ espOK = TRUE
  /\ acked = <<>>
  /\ appendedLog = <<>>
  /\ drainedLog = <<>>
  /\ nDeleted = 0
  /\ curSent = 0
  /\ curDumped = 0
  /\ consecFails = 0
  /\ everNet = FALSE
  /\ cfgOpened = FALSE
  /\ watchdog = [delay |-> 0, elapsed |-> 0]
  /\ steady = FALSE

Init == MainInit /\ PureIdle

\* ------------------------------------------------------------- startup

\* fs.mount(bd)
Mount ==
  /\ pc = "mount"
  /\ \E err \in BOOLEAN : pc' = IF err THEN "reformat" ELSE "readSD"
  /\ calls' = <<>>
  /\ UNCHANGED <<cfgVars, cfgOpened, watchdog, OfflineMode, wifi_tries, wifi_err, PollingInterval,
                 PollingTimer, store, reading, cycle, espOK, logVars, curVars,
                 consecFails, everNet>>

\* fs.reformat(bd): error() halts, otherwise main returns -1
Reformat ==
  /\ pc = "reformat"
  /\ \E err \in BOOLEAN : pc' = IF err THEN "error" ELSE "exit"
  /\ calls' = <<>>
  /\ UNCHANGED <<cfgVars, cfgOpened, watchdog, OfflineMode, wifi_tries, wifi_err, PollingInterval,
                 PollingTimer, store, reading, cycle, espOK, logVars, curVars,
                 consecFails, everNet>>

\* readSDCard: the parsed configuration, or a default BoardSpecs when the
\* file cannot be opened
readSDCard(opened, parsed) == IF opened THEN parsed ELSE DefaultSpecs

ReadConfig ==
  /\ pc = "readSD"
  /\ \E opened \in BOOLEAN, parsed \in ParsedSpecs :
        /\ Specs' = readSDCard(opened, parsed)
        /\ cfgOpened' = opened
  /\ pc' = "startESP"
  /\ calls' = <<>>
  /\ UNCHANGED <<WIFITRIES, steady, pureVars, watchdog, OfflineMode, wifi_tries, wifi_err, PollingInterval,
                 PollingTimer, store, reading, cycle, espOK, logVars, curVars,
                 consecFails, everNet>>

\* if (startESP(_parser) != NETWORKSUCCESS) OfflineMode = true;
EspOffline(off, st) == IF st # NETWORKSUCCESS THEN TRUE ELSE off

StartESP ==
  /\ pc = "startESP"
  /\ \E st \in NetStatus :
        /\ OfflineMode' = EspOffline(OfflineMode, st)
        /\ espOK' = (st = NETWORKSUCCESS)
  /\ pc' = "checkConfig"
  /\ calls' = <<>>
  /\ UNCHANGED <<cfgVars, cfgOpened, watchdog, wifi_tries, wifi_err, PollingInterval, PollingTimer,
                 store, reading, cycle, logVars, curVars, consecFails, everNet>>

Blank(s) == s = "" \/ s = " "

ConfigOfflineAssign(off, sp) ==
  \/ Blank(sp.DatabaseTableName)
  \/ Blank(sp.RemoteDir)
  \/ Blank(sp.RemoteIP)
  \/ sp.RemotePort = 0
  \/ Blank(sp.HostName)

ConfigOfflineNoPort(off, sp) ==
  \/ off
  \/ Blank(sp.DatabaseTableName)
  \/ Blank(sp.RemoteDir)
  \/ Blank(sp.RemoteIP)
  \/ Blank(sp.HostName)

\* the five configuration tests: each one can only set OfflineMode
ConfigOffline(off, sp) ==
  \/ off
  \/ Blank(sp.DatabaseTableName)
  \/ Blank(sp.RemoteDir)
  \/ Blank(sp.RemoteIP)
  \/ sp.RemotePort = 0
  \/ Blank(sp.HostName)

CheckConfig ==
  /\ pc = "checkConfig"
  /\ OfflineMode' = ConfigOffline(OfflineMode, Specs)
  /\ pc' = "startConnect"
  /\ calls' = <<>>
  /\ UNCHANGED <<cfgVars, cfgOpened, watchdog, wifi_tries, wifi_err, PollingInterval, PollingTimer,
                 store, reading, cycle, espOK, logVars, curVars, consecFails,
                 everNet>>

\* the startup connection attempt: a failure costs one try, nothing else
StartConnect ==
  /\ pc = "startConnect"
  /\ IF OfflineMode
       THEN /\ calls' = <<>>
            /\ UNCHANGED <<wifi_tries, wifi_err, consecFails, everNet>>
       ELSE \E connected \in BOOLEAN, st \in NetStatus :
              LET err == IF connected THEN NETWORKSUCCESS ELSE st IN
              /\ wifi_err' = err
              /\ wifi_tries' = IF err # NETWORKSUCCESS
                                 THEN wifi_tries - 1 ELSE wifi_tries
              /\ calls' = IF connected
                            THEN <<Call("probe", TRUE, 0, NoOverride)>>
                            ELSE <<Call("probe", FALSE, 0, NoOverride),
                                   Call("connect", st = NETWORKSUCCESS, 0,
                                        NoOverride)>>
              /\ consecFails' = IF err # NETWORKSUCCESS
                                  THEN consecFails + 1 ELSE 0
              /\ everNet' = (everNet \/ ~connected)
  /\ pc' = "read"
  /\ cycle' = 1
  /\ UNCHANGED <<cfgVars, cfgOpened, watchdog, OfflineMode, PollingInterval, PollingTimer, store,
                 reading, espOK, logVars, curVars>>

\* ------------------------------------------------------- control loop

\* resetWatchdog: detach, then attach NVIC_SystemReset with the new delay
resetWatchdog(new_delay) == [delay |-> new_delay, elapsed |-> 0]

\* lines 152-179: the watchdog is reset once per port with Multiplier != 0,
\* and every retained port has one
WatchdogAfterPorts(w, numPorts, interval) ==
  IF numPorts > 0 THEN resetWatchdog(interval * WatchdogFactor) ELSE w

\* d more seconds pass on an attached Timeout
Tick(w, d) == IF w.delay > 0 THEN [w EXCEPT !.elapsed = @ + d] ELSE w

\* the Timeout does not fire within the next d seconds
Survives(w, d) == w.delay = 0 \/ w.elapsed + d < w.delay

\* outcomes of the collaborators; in the steady regime the board stays
\* connected and every send is acknowledged
ProbeResults == IF steady THEN {TRUE} ELSE BOOLEAN
SendResults == IF steady THEN {NETWORKSUCCESS} ELSE NetStatus

\* the histories and the cycle number are kept in bounded runs only
Record(log, e) == IF steady THEN log ELSE Append(log, e)
Count(n) == IF steady THEN n ELSE n + 1

\* lines 152-183: sample the ports, then start the cycle timer
ReadPorts ==
  /\ pc = "read"
  /\ reading' = cycle
  /\ PollingTimer' = 0
  /\ curSent' = 0
  /\ curDumped' = 0
  /\ watchdog' = WatchdogAfterPorts(watchdog, Specs.NumPorts, PollingInterval)
  /\ pc' = "net"
  /\ calls' = <<>>
  /\ UNCHANGED <<cfgVars, cfgOpened, OfflineMode, wifi_tries, wifi_err, PollingInterval,
                 store, cycle, espOK, logVars, consecFails, everNet>>

\* lines 274-277: in offline mode, just dump data to file
OfflineDump ==
  /\ pc = "net"
  /\ OfflineMode
  /\ store' = dumpSensorDataToFile(store, reading)
  /\ appendedLog' = Record(appendedLog, reading)
  /\ curDumped' = curDumped + 1
  /\ calls' = <<Call("dump", TRUE, reading, NoOverride)>>
  /\ pc' = "wait"
  /\ UNCHANGED <<cfgVars, cfgOpened, watchdog, OfflineMode, wifi_tries, wifi_err, PollingInterval,
                 PollingTimer, reading, cycle, espOK, acked, drainedLog,
                 nDeleted, curSent, consecFails, everNet>>

\* lines 195-211: the retry budget after a connect attempt
BudgetAfterConnect(tries, st, max) ==
  IF st # NETWORKSUCCESS THEN tries - 1 ELSE max

\* lines 200-206: the budget is exhausted
RetryOffline(off, st, tries) ==
  IF st # NETWORKSUCCESS /\ tries <= 0 THEN TRUE ELSE off

\* lines 186-212: try to connect again if not connected now
Reconnect ==
  /\ pc = "net"
  /\ ~OfflineMode
  /\ \E connected \in ProbeResults, st \in NetStatus, d \in CallTicks :
       IF connected
         THEN /\ calls' = <<Call("probe", TRUE, 0, NoOverride)>>
              /\ consecFails' = 0
              /\ UNCHANGED <<OfflineMode, wifi_tries, wifi_err, PollingTimer,
                             everNet, watchdog>>
         ELSE LET tries == BudgetAfterConnect(wifi_tries, st, WIFITRIES) IN
              /\ Survives(watchdog, d)
              /\ watchdog' = Tick(watchdog, d)
              /\ wifi_err' = st
              /\ wifi_tries' = tries
              /\ OfflineMode' = RetryOffline(OfflineMode, st, tries)
              /\ PollingTimer' = PollingTimer + d
              /\ calls' = <<Call("probe", FALSE, 0, NoOverride),
                            Call("connect", st = NETWORKSUCCESS, 0, NoOverride)>>
              /\ consecFails' = IF st # NETWORKSUCCESS
                                  THEN consecFails + 1 ELSE 0
              /\ everNet' = TRUE
  /\ pc' = "check"
  /\ UNCHANGED <<cfgVars, cfgOpened, PollingInterval, store, reading, cycle, espOK,
                 logVars, curVars>>

\* lines 216 and 269-272: send only if connected, else back up the readings
CheckConnected ==
  /\ pc = "check"
  /\ \E connected \in ProbeResults :
       IF connected
         THEN /\ pc' = "drain"
              /\ calls' = <<Call("probe", TRUE, 0, NoOverride)>>
              /\ consecFails' = 0
              /\ UNCHANGED <<store, appendedLog, curDumped>>
         ELSE /\ pc' = "wait"
              /\ store' = dumpSensorDataToFile(store, reading)
              /\ appendedLog' = Record(appendedLog, reading)
              /\ curDumped' = curDumped + 1
              /\ calls' = <<Call("probe", FALSE, 0, NoOverride),
                            Call("dump", TRUE, reading, NoOverride)>>
              /\ UNCHANGED consecFails
  /\ UNCHANGED <<cfgVars, cfgOpened, watchdog, OfflineMode, wifi_tries, wifi_err, PollingInterval,
                 PollingTimer, reading, cycle, espOK, acked, drainedLog,
                 nDeleted, curSent, everNet>>

\* lines 228-232 and 251-255: adopt the interval a send handed back
AdoptOverride(interval, st, tmp) ==
  IF tmp # NoOverride /\ tmp > 0 THEN tmp ELSE interval

\* line 220: the drain loop's condition
DrainOpen == PollingTimer <= PollingInterval /\ checkForBackupFile(store)

DrainDeleteAlways(st, file) == deleteDataEntry(file)

DrainNoDelete(st, file) == file

\* lines 234-242: stop on a failed transmission, else delete the entry
DrainDelete(st, file) ==
  IF st # NETWORKSUCCESS THEN file ELSE deleteDataEntry(file)

\* lines 220-243: one iteration of the drain loop
DrainStep ==
  /\ pc = "drain"
  /\ DrainOpen
  /\ \E st \in SendResults, tmp \in Overrides, d \in CallTicks :
       LET ok == st = NETWORKSUCCESS
           entry == peekOldest(store)
           file == DrainDelete(st, store)
           deleted == Len(file) < Len(store) IN
       /\ Survives(watchdog, d)
       /\ watchdog' = Tick(watchdog, d)
       /\ wifi_err' = st
       /\ PollingInterval' = AdoptOverride(PollingInterval, st, tmp)
       /\ PollingTimer' = PollingTimer + d
       /\ store' = file
       /\ pc' = IF ok THEN "drain" ELSE "afterDrain"
       /\ calls' = IF deleted
                     THEN <<Call("sendBackup", ok, entry, tmp),
                            Call("delete", TRUE, entry, NoOverride)>>
                     ELSE <<Call("sendBackup", ok, entry, tmp)>>
       /\ acked' = IF ok THEN Record(acked, entry) ELSE acked
       /\ drainedLog' = IF ok THEN Record(drainedLog, entry) ELSE drainedLog
       /\ nDeleted' = IF deleted THEN Count(nDeleted) ELSE nDeleted
  /\ everNet' = TRUE
  /\ UNCHANGED <<cfgVars, cfgOpened, OfflineMode, wifi_tries, reading, cycle, espOK,
                 appendedLog, curVars, consecFails>>

\* the drain loop has ended, by its condition or by break
DrainOver == pc = "afterDrain" \/ (pc = "drain" /\ ~DrainOpen)

SendsCurrentAlways(file) == TRUE

\* line 245: the current readings are sent only when no backup file is left
SendsCurrent(file) == ~checkForBackupFile(file)

AfterCurrentSendNoDump(st, file, r) == file

\* lines 256-264: back the readings up if they could not be sent
AfterCurrentSend(st, file, r) ==
  IF st # NETWORKSUCCESS THEN dumpSensorDataToFile(file, r) ELSE file

\* lines 245-264: send the last port reading to the database
SendCurrent ==
  /\ DrainOver
  /\ SendsCurrent(store)
  /\ \E st \in SendResults, tmp \in Overrides, d \in CallTicks :
       LET ok == st = NETWORKSUCCESS
           file == AfterCurrentSend(st, store, reading)
           dumped == file # store IN
       /\ Survives(watchdog, d)
       /\ watchdog' = Tick(watchdog, d)
       /\ wifi_err' = st
       /\ PollingInterval' = AdoptOverride(PollingInterval, st, tmp)
       /\ PollingTimer' = PollingTimer + d
       /\ store' = file
       /\ calls' = IF dumped
                     THEN <<Call("sendBulk", ok, reading, tmp),
                            Call("dump", TRUE, reading, NoOverride)>>
                     ELSE <<Call("sendBulk", ok, reading, tmp)>>
       /\ acked' = IF ok THEN Record(acked, reading) ELSE acked
       /\ curSent' = IF ok THEN curSent + 1 ELSE curSent
       /\ curDumped' = IF dumped THEN curDumped + 1 ELSE curDumped
       /\ appendedLog' = IF dumped THEN Record(appendedLog, reading)
                                   ELSE appendedLog
  /\ pc' = "wait"
  /\ everNet' = TRUE
  /\ UNCHANGED <<cfgVars, cfgOpened, OfflineMode, wifi_tries, reading, cycle, espOK,
                 drainedLog, nDeleted, consecFails>>

\* lines 265-267: the backlog was not drained, back the readings up
BufferCurrent ==
  /\ DrainOver
  /\ ~SendsCurrent(store)
  /\ store' = dumpSensorDataToFile(store, reading)
  /\ appendedLog' = Record(appendedLog, reading)
  /\ curDumped' = curDumped + 1
  /\ calls' = <<Call("dump", TRUE, reading, NoOverride)>>
  /\ pc' = "wait"
  /\ UNCHANGED <<cfgVars, cfgOpened, watchdog, OfflineMode, wifi_tries, wifi_err, PollingInterval,
                 PollingTimer, reading, cycle, espOK, acked, drainedLog,
                 nDeleted, curSent, consecFails, everNet>>

\* lines 280-281: seconds the busy wait still lasts
WaitTime ==
  IF PollingTimer <= PollingInterval THEN PollingInterval - PollingTimer ELSE 0

\* lines 280-285: wait until the polling rate is up, then reset the timer
EndWait ==
  /\ pc = "wait"
  /\ cycle < MaxCycles
  /\ Survives(watchdog, WaitTime)
  /\ watchdog' = Tick(watchdog, WaitTime)
  /\ PollingTimer' = 0
  /\ cycle' = Count(cycle)
  /\ pc' = "read"
  /\ calls' = <<>>
  /\ UNCHANGED <<cfgVars, cfgOpened, OfflineMode, wifi_tries, wifi_err, PollingInterval,
                 store, reading, espOK, logVars, curVars, consecFails, everNet>>

\* a blocking network call is about to be made or is under way
CallPending ==
  \/ pc = "net" /\ ~OfflineMode
  \/ pc = "drain" /\ DrainOpen
  \/ DrainOver /\ SendsCurrent(store)

\* the Timeout fires during a call or during the wait: NVIC_SystemReset
WatchdogReset ==
  /\ \/ pc = "wait" /\ ~Survives(watchdog, WaitTime)
     \/ CallPending /\ \E d \in CallTicks : ~Survives(watchdog, d)
  /\ pc' = "reset"
  /\ calls' = <<>>
  /\ UNCHANGED <<cfgVars, cfgOpened, watchdog, OfflineMode, wifi_tries,
                 wifi_err, PollingInterval, PollingTimer, store, reading,
                 cycle, espOK, logVars, curVars, consecFails, everNet>>

Next ==
  \/ Mount
  \/ Reformat
  \/ ReadConfig
  \/ StartESP
  \/ CheckConfig
  \/ StartConnect
  \/ ReadPorts
  \/ OfflineDump
  \/ Reconnect
  \/ CheckConnected
  \/ DrainStep
  \/ SendCurrent
  \/ BufferCurrent
  \/ EndWait
  \/ WatchdogReset

\* ------------------------------------------- steady regime (unbounded run)

\* the first cycle of a boot that found MaxBacklog or fewer entries in the
\* backup file, with a complete configuration; from here on the board stays
\* connected and every send is acknowledged
InitSteady ==
  /\ pc = "read"
  /\ Specs \in [DatabaseTableName : {"x"}, RemoteDir : {"x"}, RemoteIP : {"x"},
                RemotePort : {80}, HostName : {"x"}, NumPorts : PortCounts]
  /\ WIFITRIES \in 1 .. MaxWifiTries
  /\ OfflineMode = FALSE
  /\ wifi_tries = WIFITRIES
  /\ wifi_err = NETWORKSUCCESS
  /\ PollingInterval = InitialPollingInterval
  /\ PollingTimer = 0
  /\ store \in {[i \in 1 .. n |-> 0] : n \in 0 .. MaxBacklog}
  /\ reading = 0
  /\ cycle = 1
  /\ calls = <<>>
  /\ espOK = TRUE
  /\ acked = <<>>
  /\ appendedLog = <<>>
  /\ drainedLog = <<>>
  /\ nDeleted = 0
  /\ curSent = 0
  /\ curDumped = 0
  /\ consecFails = 0
  /\ everNet = FALSE
  /\ cfgOpened = TRUE
  /\ watchdog = [delay |-> 0, elapsed |-> 0]
  /\ steady = TRUE
  /\ PureIdle

NextSteady ==
  \/ ReadPorts
  \/ Reconnect
  \/ CheckConnected
  \/ DrainStep
  \/ SendCurrent
  \/ BufferCurrent
  \/ EndWait
  \/ WatchdogReset

\* the loop is one sequential control flow whose calls all return: some step
\* of it is always taken
SpecSteady == InitSteady /\ [][NextSteady]_vars /\ WF_vars(NextSteady)


\* ------------------------------------------------ configuration parsing
\* A text is a sequence of lines, a line a sequence of characters that ends
\* with "\n".  A real number is held in hundredths: 0.01 is 1, 500 is 50000.

\* the sensor line of the example: multiplier 0.01, range [0, 500]
SensorLine ==
  <<"S", "e", "n", "s", "o", "r", "I", "D", ":", "V", "o", "l", "t", "a",
    "g", "e", ",", "V", ",", "0", ".", "0", "1", ",", "0", ",", "5", "0",
    "0", "\n">>

\* a sensor whose full-scale sample exceeds its range: multiplier 600
BigSensorLine ==
  <<"S", "e", "n", "s", "o", "r", "I", "D", ":", "C", "u", "r", "r", "e",
    "n", "t", ",", "A", ",", "6", "0", "0", ",", "0", ",", "5", "0", "0",
    "\n">>

\* a sensor line whose multiplier is 0
ZeroSensorLine ==
  <<"S", "e", "n", "s", "o", "r", "I", "D", ":", "S", "p", "a", "r", "e",
    ",", "A", ",", "0", ",", "0", ",", "5", "0", "0", "\n">>

\* a sensor line that ends after the unit
ShortSensorLine ==
  <<"S", "e", "n", "s", "o", "r", "I", "D", ":", "V", "o", "l", "t", "a",
    "g", "e", ",", "V", "\n">>

\* the port line of the example: its name holds one space
PortLine ==
  <<"P", " ", "M", "a", "i", "n", ":", "0", "\n">>

\* a port line without a space
PlainPortLine ==
  <<"P", "A", "u", "x", ":", "0", "\n">>

\* a port line whose name holds two spaces
TwoSpacePortLine ==
  <<"P", " ", "A", " ", "B", ":", "0", "\n">>

\* a port of the second sensor
SecondPortLine ==
  <<"P", "B", ":", "1", "\n">>

\* a port with a negative SensorID
NegativePortLine ==
  <<"P", "N", ":", "-", "1", "\n">>

\* a port line without ':'
ShortPortLine ==
  <<"P", "Q", "\n">>

\* a complete board line
BoardLine ==
  <<"B", "o", "a", "r", "d", ":", "n", "e", "t", ":", "p", "w", ":", "t",
    "a", "b", ":", "\n">>

\* a board line that ends after the SSID
ShortBoardLine ==
  <<"B", "o", "a", "r", "d", ":", "n", "e", "t", "\n">>

\* a complete connection line
ConnLine ==
  <<"C", "o", "n", "n", "I", "n", "f", "o", ":", "1", "0", ":", "8", "0",
    ":", "h", "o", "s", "t", ":", "d", "i", "r", "\n">>

\* a connection line that ends after the IP
ShortConnLine ==
  <<"C", "o", "n", "n", "I", "n", "f", "o", ":", "1", "0", "\n">>

ConfigLines ==
  {SensorLine, BigSensorLine, ZeroSensorLine, ShortSensorLine, PortLine,
   PlainPortLine, TwoSpacePortLine, SecondPortLine, NegativePortLine,
   ShortPortLine, BoardLine, ShortBoardLine, ConnLine, ShortConnLine}

RECURSIVE TextsUpTo(_)
TextsUpTo(n) ==
  IF n = 0 THEN {<<>>}
  ELSE TextsUpTo(n - 1) \cup
       {Append(t, l) : t \in {u \in TextsUpTo(n - 1) : Len(u) = n - 1},
                       l \in ConfigLines}
Texts == TextsUpTo(MaxLines)

\* ---- the C library calls of the parser
DigitChars == <<"0", "1", "2", "3", "4", "5", "6", "7", "8", "9">>
isdigit(c) == \E i \in DOMAIN DigitChars : DigitChars[i] = c
DigitValue(c) == (CHOOSE i \in DOMAIN DigitChars : DigitChars[i] = c) - 1
isspace(c) == c \in {" ", "\n"}

\* strstr(buf, pat) != NULL
strstr(buf, pat) ==
  \E i \in 1 .. Len(buf) - Len(pat) + 1 :
     SubSeq(buf, i, i + Len(pat) - 1) = pat

\* first position from pos on whose character is in D (inD = FALSE) or is
\* not in D (inD = TRUE); Len(buf) + 1 when there is none
RECURSIVE Span(_, _, _, _)
Span(buf, pos, D, inD) ==
  IF pos > Len(buf) THEN pos
  ELSE IF (buf[pos] \in D) = inD THEN Span(buf, pos + 1, D, inD)
  ELSE pos

\* strtok continuing at pos with delimiters D: the token, or NULL, and the
\* position the next call continues at
strtok(buf, pos, D) ==
  LET start == Span(buf, pos, D, TRUE)
      stop == Span(buf, start, D, FALSE) IN
  IF start > Len(buf)
    THEN [null |-> TRUE, tok |-> <<>>, next |-> start]
    ELSE [null |-> FALSE, tok |-> SubSeq(buf, start, stop - 1),
          next |-> IF stop > Len(buf) THEN stop ELSE stop + 1]

\* the run of digits of s from pos on, as a number, and where it ends
RECURSIVE DigitRun(_, _, _)
DigitRun(s, pos, acc) ==
  IF pos <= Len(s) /\ isdigit(s[pos])
    THEN DigitRun(s, pos + 1, acc * 10 + DigitValue(s[pos]))
    ELSE [v |-> acc, next |-> pos]

\* leading white space and an optional sign: is it '-', and where the digits
\* start
SignOf(s) ==
  LET p == Span(s, 1, {" ", "\n"}, TRUE) IN
  [neg |-> p <= Len(s) /\ s[p] = "-",
   at |-> IF p <= Len(s) /\ s[p] \in {"-", "+"} THEN p + 1 ELSE p]

atoi(s) ==
  LET sg == SignOf(s)
      n == DigitRun(s, sg.at, 0).v IN
  IF sg.neg THEN 0 - n ELSE n

\* the digit at pos, 0 when there is none
DigitAt(s, pos) ==
  IF pos <= Len(s) /\ isdigit(s[pos]) THEN DigitValue(s[pos]) ELSE 0

\* atof, in hundredths: the integer part and two decimal places
atof(s) ==
  LET sg == SignOf(s)
      int == DigitRun(s, sg.at, 0)
      dot == int.next <= Len(s) /\ s[int.next] = "."
      tenths == IF dot THEN DigitAt(s, int.next + 1) ELSE 0
      hundredths ==
        IF dot /\ int.next + 1 <= Len(s) /\ isdigit(s[int.next + 1])
          THEN DigitAt(s, int.next + 2) ELSE 0
      n == int.v * 100 + tenths * 10 + hundredths IN
  IF sg.neg THEN 0 - n ELSE n

\* std::string::find_first_of(c): the position, counted from 1; 0 is npos
find_first_of(s, c) ==
  IF \E i \in DOMAIN s : s[i] = c
    THEN CHOOSE i \in DOMAIN s : s[i] = c /\ \A j \in 1 .. i - 1 : s[j] # c
    ELSE 0

\* std::string::erase(pos) with the default count: everything from pos on
erase(s, pos) == SubSeq(s, 1, pos - 1)

\* ---- undefined values
\* what a field that is never assigned may hold (RangeFloor, RangeCeiling)
Indeterminate == {0, 50000, 70000}
\* what a read through a NULL token or past the end of the catalog may give
JunkStrings == {<<>>, <<"?">>}
JunkNumbers == {0, 7}
Junk ==
  [str : JunkStrings, num : JunkNumbers,
   floor : Indeterminate, ceiling : Indeterminate]

\* the value the program gets from a token, which may be NULL
TokenText(t, junk) == IF t.null THEN junk.str ELSE t.tok
TokenInt(t, junk) == IF t.null THEN junk.num ELSE atoi(t.tok)
TokenReal(t, junk) == IF t.null THEN junk.num ELSE atof(t.tok)

\* ---- BoardConfig.cpp
SensorIDMark == <<"S", "e", "n", "s", "o", "r", "I", "D">>
ConnInfoMark == <<"C", "o", "n", "n", "I", "n", "f", "o">>
BoardMark == <<"B", "o", "a", "r", "d">>
NoSensor == <<"N", "o", " ", "S", "e", "n", "s", "o", "r">>
InText == <<" ", "i", "n", " ">>

\* Sens_ID >= Sensors.size() with Sens_ID converted to size_t: a negative
\* id becomes larger than any size
NoSuchSensor(Sensors, Sens_ID) == Sens_ID < 0 \/ Sens_ID >= Len(Sensors)

setUnitMultiplier(Sensors, Sens_ID) ==
  IF NoSuchSensor(Sensors, Sens_ID) THEN 0
  ELSE Sensors[Sens_ID + 1].Multiplier

getSensorName(Sensors, Sens_ID) ==
  IF NoSuchSensor(Sensors, Sens_ID) THEN NoSensor
  ELSE Sensors[Sens_ID + 1].Type \o InText \o Sensors[Sens_ID + 1].Unit

\* setBoundsFromID indexes the catalog without a test
IndexedOutOfBounds(sensors, id) == id < 0 \/ id >= Len(sensors)

\* input.RangeEnd = sensors[input.SensorID].RangeEnd, twice; neither
\* RangeFloor nor RangeCeiling is assigned
setBoundsFromID(input, sensors, junk) ==
  [input EXCEPT !.RangeEnd =
     IF IndexedOutOfBounds(sensors, input.SensorID) THEN junk.num
     ELSE sensors[input.SensorID + 1].RangeEnd]

\* lines 81-107: one sensor line
SensorOfLine(Buffer, junk) ==
  LET id == strtok(Buffer, 1, {":"})
      type == strtok(Buffer, id.next, {","})
      unit == strtok(Buffer, type.next, {","})
      mult == strtok(Buffer, unit.next, {","})
      start == strtok(Buffer, mult.next, {","})
      end == strtok(Buffer, start.next, {"\n"}) IN
  [tmp |-> [Type |-> TokenText(type, junk), Unit |-> TokenText(unit, junk),
            Multiplier |-> TokenReal(mult, junk),
            RangeStart |-> TokenReal(start, junk),
            RangeEnd |-> TokenReal(end, junk)],
   null |-> type.null \/ unit.null \/ mult.null \/ start.null \/ end.null]

\* lines 78-112: the first pass over the lines from line i on
RECURSIVE SensorPass(_, _, _, _)
SensorPass(text, i, Specs_, junk) ==
  IF i > Len(text) THEN Specs_
  ELSE IF strstr(text[i], SensorIDMark) /\ text[i][1] = "S"
    THEN LET r == SensorOfLine(text[i], junk) IN
         SensorPass(text, i + 1,
                    [Specs_ EXCEPT !.Sensors = Append(@, r.tmp),
                                   !.nullUse = @ \/ r.null], junk)
  ELSE SensorPass(text, i + 1, Specs_, junk)

\* lines 121-139: the remote connection info
ConnInfoOfLine(Specs_, Buffer, junk) ==
  LET first == strtok(Buffer, 1, {":"})
      ip == strtok(Buffer, first.next, {":"})
      tmp == strtok(Buffer, ip.next, {":"})
      host == strtok(Buffer, tmp.next, {":"})
      dir == strtok(Buffer, host.next, {"\n"}) IN
  [Specs_ EXCEPT
     !.RemoteIP = TokenText(ip, junk),
     !.RemotePort = IF tmp.null THEN junk.num
                    ELSE IF isdigit(tmp.tok[1]) THEN atoi(tmp.tok) ELSE 0,
     !.HostName = TokenText(host, junk),
     !.RemoteDir = TokenText(dir, junk),
     !.nullUse = @ \/ ip.null \/ tmp.null \/ host.null \/ dir.null]

\* lines 142-154: the board line
BoardOfLine(Specs_, Buffer, junk) ==
  LET id == strtok(Buffer, 1, {":"})
      ssid == strtok(Buffer, id.next, {":"})
      password == strtok(Buffer, ssid.next, {":"})
      table == strtok(Buffer, password.next, {":"}) IN
  [Specs_ EXCEPT
     !.ID = TokenText(id, junk),
     !.NetworkSSID = TokenText(ssid, junk),
     !.NetworkPassword = TokenText(password, junk),
     !.DatabaseTableName = TokenText(table, junk),
     !.nullUse = @ \/ id.null \/ ssid.null \/ password.null \/ table.null]

\* lines 170-174: "remove whitespace from the name"
RECURSIVE RemoveSpaces(_)
RemoveSpaces(Name) ==
  LET SpaceDex == find_first_of(Name, " ") IN
  IF SpaceDex # 0 THEN RemoveSpaces(erase(Name, SpaceDex)) ELSE Name

\* lines 155-190: one port line, line i of the text
PortOfLine(Specs_, Buffer, i, junk) ==
  LET name == strtok(Buffer, 1, {":"})
      id == strtok(Buffer, name.next, {"\n"})
      SensorID == TokenInt(id, junk)
      declared == [Name |-> RemoveSpaces(TokenText(name, junk)),
                   SensorID |-> SensorID,
                   Multiplier |-> setUnitMultiplier(Specs_.Sensors, SensorID),
                   Description |-> getSensorName(Specs_.Sensors, SensorID),
                   RangeEnd |-> junk.num,
                   RangeFloor |-> junk.floor,
                   RangeCeiling |-> junk.ceiling,
                   line |-> i]
      tmp == setBoundsFromID(declared, Specs_.Sensors, junk) IN
  [Specs_ EXCEPT
     !.Ports = IF tmp.Multiplier # 0 THEN Append(@, tmp) ELSE @,
     !.Resolved = Append(@, tmp),
     !.nullUse = @ \/ name.null \/ id.null,
     !.oob = @ \/ IndexedOutOfBounds(Specs_.Sensors, SensorID)]

\* lines 116-192: the second pass over the lines from line i on
RECURSIVE PortPass(_, _, _, _)
PortPass(text, i, Specs_, junk) ==
  IF i > Len(text) THEN Specs_
  ELSE
    LET Buffer == text[i]
        conn == IF Buffer[1] = "C" /\ strstr(Buffer, ConnInfoMark)
                  THEN ConnInfoOfLine(Specs_, Buffer, junk) ELSE Specs_
        done == IF Buffer[1] = "B" /\ strstr(Buffer, BoardMark)
                  THEN BoardOfLine(conn, Buffer, junk)
                ELSE IF Buffer[1] = "P"
                  THEN PortOfLine(conn, Buffer, i, junk)
                ELSE conn IN
    PortPass(text, i + 1, done, junk)

\* BoardSpecs Specs: empty strings and vectors.  Resolved (every PortInfo
\* tmp that was built), nullUse (a NULL token was used) and oob (the catalog
\* was indexed out of bounds) record what the parse did.
EmptyBoardSpecs ==
  [ID |-> <<>>, NetworkSSID |-> <<>>, NetworkPassword |-> <<>>,
   DatabaseTableName |-> <<>>, RemoteIP |-> <<>>, RemotePort |-> 0,
   HostName |-> <<>>, RemoteDir |-> <<>>, Sensors |-> <<>>, Ports |-> <<>>,
   Resolved |-> <<>>, nullUse |-> FALSE, oob |-> FALSE, status |-> "done"]

readConfigText(text, junk) ==
  PortPass(text, 1, SensorPass(text, 1, EmptyBoardSpecs, junk), junk)

\* ---- main.cpp 152-179: one port sample
\* Port[i].read(): the normalised sample, empty scale or full scale
RawSamples == {0, 1}

\* a double: a finite number, or HUGE_VAL with its sign
Finite(n) == [inf |-> 0, v |-> n]
HUGE_VAL == [inf |-> 1, v |-> 0]
NegHUGE_VAL == [inf |-> -1, v |-> 0]

RangeCheckedInclusive(s, RangeFloor, RangeCeiling) ==
  IF s >= RangeCeiling THEN HUGE_VAL
  ELSE IF s <= RangeFloor THEN NegHUGE_VAL
  ELSE Finite(s)

\* lines 162-172: set error indicator if the sample is out of range
RangeChecked(s, RangeFloor, RangeCeiling) ==
  IF s > RangeCeiling THEN HUGE_VAL
  ELSE IF s < RangeFloor THEN NegHUGE_VAL
  ELSE Finite(s)

\* lines 158-172: the Value of port p after a raw sample
samplePort(p, raw) ==
  RangeChecked(raw * p.Multiplier, p.RangeFloor, p.RangeCeiling)

\* where the readings go: sendBulkDataTCP or dumpSensorDataToFile
HandoffOps == {"sendBulk", "dump"}

mainVars == <<pc, Specs, WIFITRIES, OfflineMode, wifi_tries, wifi_err,
              PollingInterval, PollingTimer, store, reading, cycle, calls,
              espOK, acked, appendedLog, drainedLog, nDeleted, curSent,
              curDumped, consecFails, everNet, cfgOpened, watchdog, steady>>

\* a configuration text is on the card, nothing has run yet
InitConfig ==
  /\ MainInit
  /\ WIFITRIES = 1
  /\ cfgText \in Texts
  /\ cfgParse = NoParse
  /\ sampled = NoSample

\* readConfigText runs on the text; a read through a NULL token or outside
\* the catalog either faults or goes on with what it found there
ParseConfig ==
  /\ cfgParse = NoParse
  /\ \E junk \in Junk, crash \in BOOLEAN :
       LET r == readConfigText(cfgText, junk) IN
       cfgParse' = IF (r.nullUse \/ r.oob) /\ crash
                     THEN [r EXCEPT !.status = "fault"]
                     ELSE r
  /\ UNCHANGED <<mainVars, cfgText, sampled>>

\* one retained port is sampled
SamplePort ==
  /\ cfgParse.status = "done"
  /\ sampled = NoSample
  /\ \E i \in DOMAIN cfgParse.Ports, raw \in RawSamples :
       /\ cfgParse.Ports[i].Multiplier # 0
       /\ sampled' = [status |-> "stored", port |-> i, raw |-> raw,
                      Value |-> samplePort(cfgParse.Ports[i], raw),
                      op |-> "none", handed |-> Finite(0)]
  /\ UNCHANGED <<mainVars, cfgText, cfgParse>>

\* the readings are sent or buffered with the Value as stored
Handoff ==
  /\ sampled.status = "stored"
  /\ \E op \in HandoffOps :
       sampled' = [sampled EXCEPT !.status = "handed", !.op = op,
                                  !.handed = sampled.Value]
  /\ UNCHANGED <<mainVars, cfgText, cfgParse>>

NextConfig ==
  \/ ParseConfig
  \/ SamplePort
  \/ Handoff

SpecConfig == InitConfig /\ [][NextConfig]_vars

\* ------------------------------------------------------------ properties

InLoop == pc \in {"read", "net", "check", "drain", "afterDrain", "wait"}
IsSend(c) == c.op \in {"sendBackup", "sendBulk"}
NoNetCall(cs) == \A i \in DOMAIN cs : ~IsSend(cs[i]) /\ cs[i].op # "connect"
SawConnected(cs) ==
  \E i \in DOMAIN cs : cs[i].op \in {"probe", "connect"} /\ cs[i].ok

\* C1: once OfflineMode is set it stays set in every later state of the run.
C1_OfflineOneWay == [][OfflineMode => OfflineMode']_vars

C1_Witness ==
  /\ pc = "wait"
  /\ OfflineMode
  /\ wifi_tries <= 0
  /\ calls = <<Call("dump", TRUE, reading, NoOverride)>>

\* C2: at the end of the network phase of every cycle the current readings
\* have been either acknowledged by the remote or appended to the backup
\* store, exactly one of the two, and never both at any point of the cycle.
C2_SentXorBuffered ==
  /\ curSent + curDumped <= 1
  /\ pc = "wait" => curSent + curDumped = 1

C2_Witness ==
  /\ pc = "wait"
  /\ curSent = 0
  /\ curDumped = 1
  /\ Len(calls) = 2
  /\ calls[1].op = "sendBulk"
  /\ ~calls[1].ok

\* C3: no step taken while OfflineMode is set invokes connect or a send.
C3_NoNetWhenOffline == [][OfflineMode => NoNetCall(calls')]_vars

\* C4: the backup store shrinks only by its oldest entry and only in a step
\* whose backlog send of that entry succeeded right before the delete; a
\* failed backlog send leaves the store as it was and ends the drain.
C4_DeleteOnlyAfterAck ==
  [][/\ Len(store') < Len(store) =>
          /\ store' = Tail(store)
          /\ Len(calls') = 2
          /\ calls'[1].op = "sendBackup"
          /\ calls'[1].ok
          /\ calls'[1].entry = Head(store)
          /\ calls'[2].op = "delete"
          /\ calls'[2].entry = Head(store)
     /\ \A i \in DOMAIN calls' :
          (calls'[i].op = "delete") => (i > 1 /\ calls'[i-1].op = "sendBackup"
                                         /\ calls'[i-1].ok
                                         /\ calls'[i-1].entry = calls'[i].entry)
     /\ \A i \in DOMAIN calls' :
          (calls'[i].op = "sendBackup" /\ ~calls'[i].ok) =>
              /\ store' = store
              /\ nDeleted' = nDeleted
              /\ pc' = "afterDrain"]_vars

C4_Witness ==
  /\ pc = "drain"
  /\ Len(calls) = 2
  /\ calls[2].op = "delete"
  /\ Len(store) >= 1
  /\ nDeleted >= 2

Increasing(q) == \A i, j \in DOMAIN q : i < j => q[i] < q[j]

\* C5: a cycle whose drain ends with a non-empty backup store appends the
\* current readings and sends nothing more; acknowledgements are in sampling
\* order and every buffered reading is newer than every acknowledged one.
C5_BufferedNotSentInOrder ==
  /\ [](/\ Increasing(acked)
        /\ Increasing(store)
        /\ \A i \in DOMAIN acked, j \in DOMAIN store : acked[i] < store[j])
  /\ [][(DrainOver /\ checkForBackupFile(store) /\ pc' = "wait") =>
          /\ store' = Append(store, reading)
          /\ acked' = acked
          /\ curSent' = 0]_vars

C5_Witness ==
  /\ pc = "wait"
  /\ PollingTimer > PollingInterval
  /\ Len(store) >= 2
  /\ store[Len(store)] = reading
  /\ Len(acked) >= 1
  /\ curSent = 0

\* C6: the backlog entries acknowledged so far followed by those still stored
\* are the readings appended so far, in append order, and there is one delete
\* per acknowledged entry; with the store empty, exactly the appended entries
\* were sent, each once, in append order.
C6_RoundTrip ==
  /\ drainedLog \o store = appendedLog
  /\ nDeleted = Len(drainedLog)

C6_Witness ==
  /\ store = <<>>
  /\ Len(appendedLog) >= 3
  /\ drainedLog = appendedLog
  /\ nDeleted = Len(appendedLog)
  /\ Len(calls) = 2
  /\ calls[1].op = "sendBackup"

\* C7: PollingInterval changes only in a step with an acknowledged send whose
\* override is strictly positive, and then to that override.
C7_IntervalOnlyFromAckedSend ==
  [][PollingInterval' # PollingInterval =>
       \E i \in DOMAIN calls' :
          /\ IsSend(calls'[i])
          /\ calls'[i].ok
          /\ calls'[i].tmp > 0
          /\ PollingInterval' = calls'[i].tmp]_vars

\* C8: at every cycle boundary an exhausted budget means OfflineMode, and no
\* connect is invoked with an exhausted budget.
C8_ExhaustedIsOffline ==
  /\ []((pc = "read" /\ wifi_tries <= 0) => OfflineMode)
  /\ [][wifi_tries <= 0 =>
          \A i \in DOMAIN calls' : calls'[i].op # "connect"]_vars

\* C9: the budget is exhausted only by WIFITRIES failed connects in a row,
\* and every observation of connectivity restores the budget to WIFITRIES.
C9_ConsecutiveFailures ==
  [][/\ (~OfflineMode /\ OfflineMode' /\ pc = "net") =>
           consecFails' >= WIFITRIES
     /\ SawConnected(calls') => wifi_tries' = WIFITRIES]_vars

Empty(s) == s = ""

ClaimedDeficient ==
  \/ ~espOK
  \/ Empty(Specs.DatabaseTableName)
  \/ Empty(Specs.RemoteIP)
  \/ Empty(Specs.RemoteDir)
  \/ Empty(Specs.HostName)
  \/ Specs.RemotePort = 0

Deficient ==
  \/ ~espOK
  \/ Blank(Specs.DatabaseTableName)
  \/ Blank(Specs.RemoteIP)
  \/ Blank(Specs.RemoteDir)
  \/ Blank(Specs.HostName)
  \/ Specs.RemotePort = 0

\* C10 as stated: a failed WiFi initialisation, an empty table name, IP,
\* directory or hostname, or port 0 makes the loop Offline with no connect or
\* send in the run; otherwise the loop starts Online.
C10_StartupDecisionAsStated ==
  InLoop =>
    IF ClaimedDeficient
      THEN OfflineMode /\ ~everNet
      ELSE (pc = "read" /\ cycle = 1) => ~OfflineMode

\* C10 amended: the same, with a field that is empty or a single space
\* counting as missing.
C10_StartupDecision ==
  InLoop =>
    IF Deficient
      THEN OfflineMode /\ ~everNet
      ELSE (pc = "read" /\ cycle = 1) => ~OfflineMode

C10_Witness ==
  /\ pc = "wait"
  /\ cycle >= 2
  /\ espOK
  /\ Specs.RemoteIP = " "
  /\ ~ClaimedDeficient
  /\ OfflineMode
  /\ Len(store) = cycle

\* C17: the control loop is reached only with the storage mounted and the
\* configuration file opened and read.
C17_LoopOnlyWithConfig == InLoop => cfgOpened

\* C18: in a cycle whose network calls all returned at once, the watchdog
\* does not fire before the next re-arm, whatever interval a send adopted.
C18_NoExpiryWithoutStall ==
  [][(pc = "wait" /\ PollingTimer = 0) => pc' # "reset"]_vars

\* C19: with the board connected and every send and delete succeeding from
\* the first cycle on, the backup store eventually is and stays empty (runs
\* ended by a watchdog reset are left aside).
C19_BacklogDrains == <>(pc = "reset") \/ <>[](~checkForBackupFile(store))

\* C20: every iteration of the loop re-arms the watchdog to 5 x
\* PollingInterval while reading the ports.
C20_ArmedEveryCycle ==
  [][(pc = "read" /\ pc' = "net") =>
        watchdog' = resetWatchdog(PollingInterval * WatchdogFactor)]_vars


\* ------------------------------------------ properties of the parser

RetainedPort == cfgParse.Ports[sampled.port]

\* C11: with s = raw sample x Multiplier, the stored Value of a polled port
\* is positive infinity if s > RangeCeiling, negative infinity if
\* s < RangeFloor and s itself otherwise, both bounds included; the Value is
\* handed to the send or to the backup store as stored, sentinel or not.
C11_SentinelOutsideRange ==
  sampled.status # "none" =>
    LET s == sampled.raw * RetainedPort.Multiplier IN
    /\ s > RetainedPort.RangeCeiling => sampled.Value = [inf |-> 1, v |-> 0]
    /\ s < RetainedPort.RangeFloor /\ s <= RetainedPort.RangeCeiling =>
         sampled.Value = [inf |-> -1, v |-> 0]
    /\ s >= RetainedPort.RangeFloor /\ s <= RetainedPort.RangeCeiling =>
         sampled.Value = [inf |-> 0, v |-> s]
    /\ sampled.status = "handed" =>
         /\ sampled.handed = sampled.Value
         /\ sampled.op \in {"sendBulk", "dump"}

C11_Witness ==
  /\ sampled.status = "handed"
  /\ sampled.op = "sendBulk"
  /\ sampled.raw * RetainedPort.Multiplier > RetainedPort.RangeCeiling
  /\ sampled.Value.inf = 1
  /\ sampled.handed.inf = 1

RetainedLines == {cfgParse.Ports[k].line : k \in DOMAIN cfgParse.Ports}
InCatalog(id) == 0 <= id /\ id < Len(cfgParse.Sensors)

\* C12: a port line is retained if and only if its SensorID is the index of
\* an existing catalog entry, whatever that entry's Multiplier and wherever
\* the sensor lines stand; retained ports keep the order of their lines.
C12_RetainedIffInCatalog ==
  cfgParse.status = "done" =>
    /\ \A k \in DOMAIN cfgParse.Resolved :
         LET r == cfgParse.Resolved[k] IN
         (r.line \in RetainedLines) <=> InCatalog(r.SensorID)
    /\ \A j, k \in DOMAIN cfgParse.Ports :
         j < k => cfgParse.Ports[j].line < cfgParse.Ports[k].line

\* C13: resolving a port whose SensorID is outside the catalog reads no
\* catalog entry out of bounds and reaches no fault: the lookup gives
\* multiplier 0 and "No Sensor" and the port is dropped.
C13_NoAccessOutsideCatalog ==
  cfgParse.status # "none" =>
    \A k \in DOMAIN cfgParse.Resolved :
       LET r == cfgParse.Resolved[k] IN
       ~InCatalog(r.SensorID) =>
          /\ ~cfgParse.oob
          /\ cfgParse.status = "done"
          /\ r.Multiplier = 0
          /\ r.Description = <<"N", "o", " ", "S", "e", "n", "s", "o", "r">>
          /\ r.line \notin RetainedLines

\* C14: every retained port's RangeFloor is the RangeStart and its
\* RangeCeiling the RangeEnd of the catalog entry its SensorID refers to.
C14_BoundsFromSensor ==
  cfgParse.status = "done" =>
    \A k \in DOMAIN cfgParse.Ports :
       LET p == cfgParse.Ports[k]
           sensor == cfgParse.Sensors[p.SensorID + 1] IN
       /\ p.RangeFloor = sensor.RangeStart
       /\ p.RangeCeiling = sensor.RangeEnd

\* the characters of s that are not white space, in order
RECURSIVE WithoutWhitespace(_)
WithoutWhitespace(s) ==
  IF s = <<>> THEN <<>>
  ELSE IF Head(s) \in {" ", "\n"} THEN WithoutWhitespace(Tail(s))
  ELSE <<Head(s)>> \o WithoutWhitespace(Tail(s))

\* the text of a line before its first ':' (the whole line without one)
UpToColon(l) ==
  IF \E i \in DOMAIN l : l[i] = ":"
    THEN SubSeq(l, 1, (CHOOSE i \in DOMAIN l :
                         l[i] = ":" /\ \A j \in 1 .. i - 1 : l[j] # ":") - 1)
    ELSE l

\* C15: the Name of a parsed port is the text of its line up to the first
\* ':' with every white-space character removed and every other character
\* kept; the sensor line SensorID:Voltage,V,0.01,0,500 followed by the port
\* line P Main:0 yields exactly one retained port, named "Main", with
\* multiplier 0.01 and description "Voltage in V".
C15_NameWithoutWhitespace ==
  cfgParse.status = "done" =>
    /\ \A k \in DOMAIN cfgParse.Resolved :
         LET r == cfgParse.Resolved[k] IN
         r.Name = WithoutWhitespace(UpToColon(cfgText[r.line]))
    /\ cfgText = <<SensorLine, PortLine>> =>
         /\ Len(cfgParse.Ports) = 1
         /\ cfgParse.Ports[1].Name = <<"M", "a", "i", "n">>
         /\ cfgParse.Ports[1].Multiplier = 1
         /\ cfgParse.Ports[1].Description =
              <<"V", "o", "l", "t", "a", "g", "e", " ", "i", "n", " ", "V">>

\* lines with fewer fields than their record type requires
MalformedLines ==
  {ShortSensorLine, ShortPortLine, ShortBoardLine, ShortConnLine}

\* the text without its malformed lines
WellFormedPart(text) ==
  SelectSeq(text, LAMBDA l : l \notin MalformedLines)

\* the records of a parse, without the positions of the port lines
Records(r) ==
  <<r.ID, r.NetworkSSID, r.NetworkPassword, r.DatabaseTableName, r.RemoteIP,
    r.RemotePort, r.HostName, r.RemoteDir, r.Sensors,
    [k \in DOMAIN r.Ports |->
       <<r.Ports[k].Name, r.Ports[k].SensorID, r.Ports[k].Multiplier,
         r.Ports[k].Description>>]>>

\* C16: a line that lacks an expected delimiter or field is skipped: the
\* parser uses no missing token and reaches no fault, and the records parsed
\* from the other lines are the same as if the line were absent.
C16_MalformedLineSkipped ==
  (cfgParse.status # "none" /\ \E i \in DOMAIN cfgText :
                                  cfgText[i] \in MalformedLines) =>
    /\ cfgParse.status = "done"
    /\ ~cfgParse.nullUse
    /\ \A junk \in Junk :
         Records(cfgParse) = Records(readConfigText(WellFormedPart(cfgText),
                                                    junk))

Spec == Init /\ [][Next]_vars
====
